---- MODULE Spec2Model ----
(***************************************************************************)
(* Model of the weather data pipeline of FirstDataMine (weather_core.py,   *)
(* app_streamlit.py) and of its single-file copy fetch.py:                  *)
(*   fetch -> hourly_to_frame -> save_cache / load_cache -> to_local_naive  *)
(*   -> daily_summary -> rolling_anomaly -> arrow_safe_df.                  *)
(*                                                                         *)
(* Data representation.                                                    *)
(*   A UTC instant is a whole number of hours since the first hour of the  *)
(*   modelled horizon; NaT is pandas' missing timestamp.  A measurement is *)
(*   a natural number; NaN is pandas' missing value.  A JSON token of the  *)
(*   provider's payload is a record [s, x]: s says what kind of text it is *)
(*   ("iso" timestamp text, "num" numeric text, "junk" anything else) and  *)
(*   x is the number the text denotes when it denotes one.                 *)
(*   A DataFrame is [idx, cols, rows]: idx is "time" for a DatetimeIndex   *)
(*   named time and "range" for the default RangeIndex, cols the set of    *)
(*   column labels, rows the sequence of [t, v] with t the index value and *)
(*   v the function from column label to value.                            *)
(*   A call that may raise returns [ok, exc, df].                          *)
(*                                                                         *)
(* State.                                                                  *)
(*   cache  the files of DATA_DIR, one per cache path                      *)
(*   saved  history: the frame last handed to save_cache for each path     *)
(*   call   the operation executed last, its arguments and what it gave    *)
(***************************************************************************)
EXTENDS Integers, Sequences, FiniteSets, TLC

VARIABLES cache, saved, call

vars == <<cache, saved, call>>

-----------------------------------------------------------------------------
(* Bounds of the model *)

MaxRows == 2

MaxFetchRows == 1

MaxFetchHour == 0

MaxLen == 5

MaxWindow == 5

\* a window long enough for window // 4 to exceed 4
LongWindow == 20

MaxTextLen == 5

-----------------------------------------------------------------------------
(* pandas' missing markers *)

NaT == -1000000

NaN == -1

Max(a, b) == IF a >= b THEN a ELSE b

RECURSIVE SumSeq(_)
SumSeq(s) == IF s = <<>> THEN 0 ELSE Head(s) + SumSeq(Tail(s))

RECURSIVE SelectIdx(_, _, _)
\* the subsequence of the positions i..Len(s) of s whose position is in keep
SelectIdx(s, keep, i) ==
    IF i > Len(s) THEN <<>>
    ELSE (IF i \in keep THEN <<s[i]>> ELSE <<>>) \o SelectIdx(s, keep, i + 1)

-----------------------------------------------------------------------------
(* The provider's payload *)

MeasureCols == {"temperature_2m", "precipitation", "wind_speed_10m"}

AllKeys == {"time"} \cup MeasureCols

\* hours (UTC) of the timestamps the payloads carry
TimeHours == {0, 40}

TimeToks == [s : {"iso"}, x : TimeHours] \cup {[s |-> "junk", x |-> 0]}

ValToks == {[s |-> "num", x |-> 5], [s |-> "junk", x |-> 0]}

PayloadRows == [time : TimeToks, val : ValToks]

RowSeqs(n) == UNION {[1..k -> PayloadRows] : k \in 1..n}

\* A payload js: hourly is "absent" (no hourly key), "present" (a dict with the
\* keys `keys`, each an array with one element per row) or "ragged" (a dict
\* whose arrays differ in length).  A key that is not in `keys` has no array,
\* so its tokens are fixed to the first of their kind.
CanonRow(keys, r) ==
    /\ ("time" \notin keys => r.time = [s |-> "iso", x |-> 0])
    /\ (keys \cap MeasureCols = {} => r.val = [s |-> "num", x |-> 5])

PayloadsUpTo(n) ==
    {[hourly |-> "absent", keys |-> {}, rows |-> <<>>]}
    \cup {[hourly |-> "present", keys |-> {}, rows |-> <<>>]}
    \cup {[hourly |-> "ragged", keys |-> k, rows |-> <<>>] :
            k \in {AllKeys, MeasureCols}}
    \cup {p \in [hourly : {"present"}, keys : (SUBSET AllKeys) \ {{}},
                 rows : RowSeqs(n)] :
            \A i \in 1..Len(p.rows) : CanonRow(p.keys, p.rows[i])}

Payloads == PayloadsUpTo(MaxRows)

-----------------------------------------------------------------------------
(* DataFrames and results *)

EmptyFrame == [idx |-> "range", cols |-> {}, rows |-> <<>>]

\* DataFrame.empty: any axis of length 0
Empty(df) == Len(df.rows) = 0 \/ df.cols = {}

Ok(df) == [ok |-> TRUE, exc |-> "", df |-> df]

Raise(e) == [ok |-> FALSE, exc |-> e, df |-> EmptyFrame]

\* pd.to_datetime(tok, utc=True, errors="coerce")
to_datetime(tok) == IF tok.s = "iso" THEN tok.x ELSE NaT

\* pd.to_numeric(tok, errors="coerce")
to_numeric(tok) == IF tok.s = "num" THEN tok.x ELSE NaN

\* i precedes j in sort_index(): ascending, NaT last
IndexBefore(a, b) ==
    IF a = NaT THEN FALSE ELSE IF b = NaT THEN TRUE ELSE a < b

RECURSIVE InsertRow(_, _)
InsertRow(r, sorted) ==
    IF sorted = <<>> THEN <<r>>
    ELSE IF IndexBefore(r.t, Head(sorted).t) THEN <<r>> \o sorted
    ELSE <<Head(sorted)>> \o InsertRow(r, Tail(sorted))

RECURSIVE sort_index(_)
\* rows in ascending index order, rows of equal index in their input order
sort_index(rows) ==
    IF rows = <<>> THEN <<>>
    ELSE InsertRow(rows[Len(rows)], sort_index(SubSeq(rows, 1, Len(rows) - 1)))

hourly_to_frame(js) ==
    IF js.hourly = "absent" \/ js.keys = {} THEN Ok(EmptyFrame)
    ELSE IF js.hourly = "ragged" THEN Raise("ValueError")
    ELSE
      LET cols == js.keys \ {"time"}
          vals(r) == [c \in cols |-> to_numeric(r.val)]
      IN IF "time" \in js.keys
         THEN Ok([idx |-> "time", cols |-> cols,
                  rows |-> sort_index([i \in 1..Len(js.rows) |->
                             [t |-> to_datetime(js.rows[i].time),
                              v |-> vals(js.rows[i])]])])
         ELSE Ok([idx |-> "range", cols |-> cols,
                  rows |-> [i \in 1..Len(js.rows) |->
                             [t |-> i - 1, v |-> vals(js.rows[i])]]])

-----------------------------------------------------------------------------
(* Time Localizer *)

\* offset of LOCAL_TZ (America/Denver) from UTC, in hours, over the modelled
\* horizon (daylight time; the horizon holds no change of offset)
LocalUtcOffsetHours == -6

HoursPerDay == 24

tz_convert(t) == IF t = NaT THEN NaT ELSE t + LocalUtcOffsetHours

to_local_naive(df_utc_idx) ==
    IF Empty(df_utc_idx) THEN Ok(df_utc_idx)
    ELSE IF df_utc_idx.idx # "time" THEN Raise("AttributeError")
    ELSE Ok([df_utc_idx EXCEPT !.rows =
               [i \in 1..Len(df_utc_idx.rows) |->
                  [df_utc_idx.rows[i] EXCEPT !.t = tz_convert(@)]]])

-----------------------------------------------------------------------------
(* Aggregator *)

\* A statistic: def says whether it is a number, and then num/den is its value
Missing == [def |-> FALSE, num |-> 0, den |-> 1]

Number(n, d) == [def |-> TRUE, num |-> n, den |-> d]

DailyCols == {"temperature_2m_mean", "temperature_2m_min", "temperature_2m_max",
              "precipitation_sum", "wind_speed_10m_mean"}

\* the local calendar day of a local-naive hour
DayOf(t) == t \div HoursPerDay

\* the values of column c that day d's bin holds, missing values skipped
DayValues(df, c, d) ==
    LET keep == {i \in 1..Len(df.rows) :
                   /\ df.rows[i].t # NaT
                   /\ DayOf(df.rows[i].t) = d
                   /\ df.rows[i].v[c] # NaN}
    IN [i \in 1..Len(SelectIdx(df.rows, keep, 1)) |->
          SelectIdx(df.rows, keep, 1)[i].v[c]]

SeqRange(s) == {s[i] : i \in 1..Len(s)}

agg_mean(xs) == IF xs = <<>> THEN Missing ELSE Number(SumSeq(xs), Len(xs))

agg_min(xs) ==
    IF xs = <<>> THEN Missing
    ELSE Number(CHOOSE m \in SeqRange(xs) : \A y \in SeqRange(xs) : m <= y, 1)

agg_max(xs) ==
    IF xs = <<>> THEN Missing
    ELSE Number(CHOOSE m \in SeqRange(xs) : \A y \in SeqRange(xs) : m >= y, 1)

\* sum of an empty bin is 0 (min_count = 0)
agg_sum(xs) == Number(SumSeq(xs), 1)

DailyRow(df, d) ==
    [t |-> d,
     v |-> [c \in DailyCols |->
              CASE c = "temperature_2m_mean" ->
                     agg_mean(DayValues(df, "temperature_2m", d))
                [] c = "temperature_2m_min" ->
                     agg_min(DayValues(df, "temperature_2m", d))
                [] c = "temperature_2m_max" ->
                     agg_max(DayValues(df, "temperature_2m", d))
                [] c = "precipitation_sum" ->
                     agg_sum(DayValues(df, "precipitation", d))
                [] c = "wind_speed_10m_mean" ->
                     agg_mean(DayValues(df, "wind_speed_10m", d))]]

\* the days of the rows whose index is a timestamp
Days(df) == {DayOf(df.rows[i].t) : i \in {j \in 1..Len(df.rows) : df.rows[j].t # NaT}}

FirstDay(df) == CHOOSE d \in Days(df) : \A e \in Days(df) : d <= e

LastDay(df) == CHOOSE d \in Days(df) : \A e \in Days(df) : d >= e

\* resample("D").agg({...}) of a frame with at least one timestamp: one row
\* per day from the first to the last; rows whose index is NaT are in no bin
resample_agg(df) ==
    [idx |-> "time", cols |-> DailyCols,
     rows |-> [k \in 1..(LastDay(df) - FirstDay(df) + 1) |->
                 DailyRow(df, FirstDay(df) + k - 1)]]

\* The results daily_summary can give.  An index holding nothing but NaT has
\* no first or last day, and what resample does with it is not specified:
\* both a raised error and a table without rows are allowed for.
daily_summary(df_local_naive) ==
    IF Empty(df_local_naive) THEN {Ok(EmptyFrame)}
    ELSE IF ~(MeasureCols \subseteq df_local_naive.cols) THEN {Raise("KeyError")}
    ELSE IF Days(df_local_naive) = {}
         THEN {Raise("ValueError"),
               Ok([idx |-> "time", cols |-> DailyCols, rows |-> <<>>])}
    ELSE {Ok(resample_agg(df_local_naive))}

-----------------------------------------------------------------------------
(* Cache paths.  No cache file exists at start (config.py only creates the
   directory). *)

\* Coordinates are whole numbers of 1/100000 degree.  The modelled part of
\* DEFAULT_LOCATIONS: Grand Junction and Fruita.
DEFAULT_LOCATIONS == {<<3906390, -10855060>>, <<3915890, -10872800>>}

\* coordinates given to save_cache and load_cache: the locations and a point
\* that is Grand Junction to 4 decimals
Coords == DEFAULT_LOCATIONS \cup {<<3906393, -10855058>>}

\* f"{x:.4f}": x to the nearest 1/10000 degree (no modelled coordinate is
\* half-way between two)
Format4f(x) == (x + 5) \div 10

cache_path(lat, lon) == <<Format4f(lat), Format4f(lon)>>

Paths == {cache_path(c[1], c[2]) : c \in Coords}

NoFile == [header |-> <<>>, lines |-> <<>>, exists |-> FALSE]

NoFiles == [p \in Paths |-> NoFile]

\* history: the frame last given to save_cache for each path, if any
NoSaves == [p \in Paths |-> [some |-> FALSE, df |-> EmptyFrame]]

NotRun == [ok |-> FALSE, exc |-> "not run", df |-> EmptyFrame]

-----------------------------------------------------------------------------
(* Specification of the parse -> localize -> aggregate chain, applied to every
   payload of the bounded set *)

InitParse ==
    /\ cache = NoFiles
    /\ saved = NoSaves
    /\ call \in [op : {"payload"}, js : Payloads]

ParseChain ==
    /\ call.op = "payload"
    /\ LET parsed == hourly_to_frame(call.js)
           local == IF parsed.ok THEN to_local_naive(parsed.df) ELSE NotRun
       IN \E daily \in (IF local.ok THEN daily_summary(local.df) ELSE {NotRun}) :
            call' = [op |-> "chain", js |-> call.js, parsed |-> parsed,
                     local |-> local, daily |-> daily]
    /\ UNCHANGED <<cache, saved>>

NextParse == ParseChain

SpecParse == InitParse /\ [][NextParse]_vars

-----------------------------------------------------------------------------
(* Anomaly Scorer *)

SeriesVals == {NaN, 1, 2}

SeriesUpTo(n) == UNION {[1..k -> SeriesVals] : k \in 0..n}

RECURSIVE NotNa(_)
\* the non-missing values of xs, in order
NotNa(xs) ==
    IF xs = <<>> THEN <<>>
    ELSE (IF Head(xs) # NaN THEN <<Head(xs)>> ELSE <<>>) \o NotNa(Tail(xs))

RECURSIVE SumSq(_)
SumSq(xs) == IF xs = <<>> THEN 0 ELSE Head(xs) * Head(xs) + SumSq(Tail(xs))

\* the trailing window of position i: the last `window` positions up to i
Trailing(s, window, i) == SubSeq(s, Max(1, i - window + 1), i)

min_periods_lenient(window) == Max(1, window \div 4)

min_periods(window) == Max(4, window \div 4)

\* s.rolling(window, min_periods).mean() at position i
rolling_mean(s, window, mp, i) ==
    LET xs == NotNa(Trailing(s, window, i))
    IN IF Len(xs) >= mp /\ Len(xs) > 0 THEN Number(SumSeq(xs), Len(xs)) ELSE Missing

\* s.rolling(window, min_periods).std() at position i, as its square (the
\* sample variance, ddof = 1): (n * sum(x^2) - sum(x)^2) / (n * (n - 1))
rolling_var(s, window, mp, i) ==
    LET xs == NotNa(Trailing(s, window, i))
        n == Len(xs)
    IN IF n >= mp /\ n - 1 > 0
       THEN Number(n * SumSq(xs) - SumSeq(xs) * SumSeq(xs), n * (n - 1))
       ELSE Missing

\* (s - mu) / sd at position i.  The score is kept as the deviation
\* dev = s[i] - mu and the variance var = sd^2.  IEEE division: a missing
\* operand gives missing, 0 / 0 gives missing, x / 0 gives an infinity.
zscore(s, window, mp, i) ==
    LET mu == rolling_mean(s, window, mp, i)
        sd2 == rolling_var(s, window, mp, i)
        dev == Number(s[i] * mu.den - mu.num, mu.den)
    IN IF s[i] = NaN \/ ~mu.def \/ ~sd2.def
         THEN [def |-> FALSE, inf |-> FALSE, dev |-> Missing, var |-> Missing]
       ELSE IF sd2.num = 0 /\ dev.num = 0
         THEN [def |-> FALSE, inf |-> FALSE, dev |-> dev, var |-> sd2]
       ELSE [def |-> TRUE, inf |-> (sd2.num = 0), dev |-> dev, var |-> sd2]

\* [ok, exc, out]: rolling() rejects min_periods > window with a ValueError
rolling_anomaly(s, window) ==
    IF s = <<>> THEN [ok |-> TRUE, exc |-> "", out |-> s]
    ELSE IF min_periods(window) > window
      THEN [ok |-> FALSE, exc |-> "ValueError", out |-> <<>>]
    ELSE [ok |-> TRUE, exc |-> "",
          out |-> [i \in 1..Len(s) |-> zscore(s, window, min_periods(window), i)]]

Windows == (1..MaxWindow) \cup {LongWindow}

InitAnomaly ==
    /\ cache = NoFiles
    /\ saved = NoSaves
    /\ call \in [op : {"series"}, s : SeriesUpTo(MaxLen), window : Windows]

ApplyRollingAnomaly ==
    /\ call.op = "series"
    /\ call' = [op |-> "rolling_anomaly", s |-> call.s, window |-> call.window,
                res |-> rolling_anomaly(call.s, call.window)]
    /\ UNCHANGED <<cache, saved>>

NextAnomaly == ApplyRollingAnomaly

SpecAnomaly == InitAnomaly /\ [][NextAnomaly]_vars

-----------------------------------------------------------------------------
(* Display Sanitizer, on a table of one text column *)

TextToks == {[s |-> "iso", x |-> 0], [s |-> "junk", x |-> 0]}

TextColsUpTo(n) == UNION {[1..k -> TextToks] : k \in 0..n}

\* int(0.8 * n): the product is a double that int() truncates; for the
\* lengths modelled it is the integer part of 8n/10
promote_threshold_ceil(n) == Max(1, (8 * n + 9) \div 10)

promote_threshold(n) == Max(1, (8 * n) \div 10)

\* number of values pd.to_datetime(errors="coerce") turns into a timestamp
notna_sum(col) == Cardinality({i \in 1..Len(col) : to_datetime(col[i]) # NaT})

\* the column of the returned frame: its dtype and its values
arrow_safe_df(col) ==
    IF col = <<>> THEN [dtype |-> "object", vals |-> col]
    ELSE IF notna_sum(col) >= promote_threshold(Len(col))
      THEN [dtype |-> "datetime64",
            vals |-> [i \in 1..Len(col) |-> [s |-> "ts", x |-> to_datetime(col[i])]]]
    ELSE [dtype |-> "object", vals |-> col]

InitArrow ==
    /\ cache = NoFiles
    /\ saved = NoSaves
    /\ call \in [op : {"column"}, col : TextColsUpTo(MaxTextLen)]

ApplyArrowSafe ==
    /\ call.op = "column"
    /\ call' = [op |-> "arrow_safe_df", col |-> call.col,
                res |-> arrow_safe_df(call.col)]
    /\ UNCHANGED <<cache, saved>>

NextArrow == ApplyArrowSafe

SpecArrow == InitArrow /\ [][NextArrow]_vars

-----------------------------------------------------------------------------
(* Claims about the Anomaly Scorer *)

\* number of non-missing values among s[max(1, i-w+1) .. i]
ValidInWindow(s, w, i) ==
    Cardinality({j \in 1..Len(s) : j >= i - w + 1 /\ j <= i /\ s[j] # NaN})

\* what the claim asks of a result: one output position per input position,
\* and a defined score only where the window holds max(4, w // 4) valid values
ScoresOnlyWithEnoughValid(s, w, res) ==
    /\ res.ok
    /\ Len(res.out) = Len(s)
    /\ \A i \in 1..Len(s) :
         ValidInWindow(s, w, i) < Max(4, w \div 4) => ~res.out[i].def

\* C4 (as stated): for every series S and window W >= 1, rolling_anomaly(S, W)
\* has one output position per input position and the output at i is defined
\* only if at least max(4, W // 4) of the values S[max(0, i-W+1) .. i] are
\* non-missing.
C4_EveryWindowScored ==
    call.op = "rolling_anomaly" =>
        ScoresOnlyWithEnoughValid(call.s, call.window, call.res)

\* C4 (amended): the same for every window W >= 4 and for the empty series
\* under every window; for a window W of 1..3 and a non-empty series the call
\* raises ValueError (min_periods 4 exceeds the window) and has no output.
C4_WindowAtLeastFourScored ==
    call.op = "rolling_anomaly" =>
        IF call.window >= 4 \/ call.s = <<>>
        THEN ScoresOnlyWithEnoughValid(call.s, call.window, call.res)
        ELSE ~call.res.ok /\ call.res.exc = "ValueError"

\* C4 witness: a window of at least 4 gave a defined score at one position and
\* a missing one at a position whose window holds fewer than 4 valid values
C4_Witness ==
    /\ call.op = "rolling_anomaly"
    /\ call.window >= 4
    /\ call.res.ok
    /\ \E i \in 1..Len(call.s) : call.res.out[i].def
    /\ \E i \in 1..Len(call.s) :
         /\ ValidInWindow(call.s, call.window, i) < 4
         /\ call.s[i] # NaN
         /\ ~call.res.out[i].def

-----------------------------------------------------------------------------
(* Claims about the Display Sanitizer *)

\* number of values of the column that are timestamp text
Parseable(col) == Cardinality({i \in 1..Len(col) : col[i].s = "iso"})

\* C9 (as stated): arrow_safe_df promotes a text column of n >= 1 values to a
\* timestamp column if and only if at least 80% of its values parse as
\* timestamps (10 * k >= 8 * n).
C9_PromotedIffEightyPercent ==
    (call.op = "arrow_safe_df" /\ Len(call.col) >= 1) =>
        (call.res.dtype = "datetime64"
           <=> 10 * Parseable(call.col) >= 8 * Len(call.col))

\* C9 (amended): arrow_safe_df promotes a text column of n >= 1 values if and
\* only if k >= max(1, floor(0.8 * n)) of them parse; so every column that is
\* at least 80% parseable is promoted, and so are some below 80%.
C9_PromotedIffTruncatedThreshold ==
    (call.op = "arrow_safe_df" /\ Len(call.col) >= 1) =>
        /\ call.res.dtype = "datetime64"
             <=> \E m \in 0..Len(call.col) :
                   /\ 10 * m <= 8 * Len(call.col)
                   /\ 8 * Len(call.col) < 10 * (m + 1)
                   /\ Parseable(call.col) >= Max(1, m)
        /\ (10 * Parseable(call.col) >= 8 * Len(call.col)
              => call.res.dtype = "datetime64")

\* C9 witness: a column promoted with fewer than 80% of its values parseable
C9_Witness ==
    /\ call.op = "arrow_safe_df"
    /\ Len(call.col) >= 1
    /\ call.res.dtype = "datetime64"
    /\ 10 * Parseable(call.col) < 8 * Len(call.col)

-----------------------------------------------------------------------------
(* Claims about the Parser/Normalizer and the Aggregator *)

\* the local days that the rows of df with a timestamp fall on
StampedDays(df) ==
    {df.rows[i].t \div 24 : i \in {j \in 1..Len(df.rows) : df.rows[j].t # NaT}}

\* day d has a row of df that carries a number in some column
Contributes(df, d) ==
    \E i \in 1..Len(df.rows) :
        /\ df.rows[i].t # NaT
        /\ df.rows[i].t \div 24 = d
        /\ \E c \in df.cols : df.rows[i].v[c] # NaN

\* C5: daily_summary yields one row for every local calendar day between the
\* first and the last timestamp of its input, and in the row of a day with no
\* contributing hourly row (or only missing values) every statistic is missing.
C5_GapDaysAllMissing ==
    (call.op = "chain" /\ call.local.ok /\ call.daily.ok
       /\ ~Empty(call.local.df)) =>
        \A a, b \in StampedDays(call.local.df) : \A d \in a..b :
            /\ Cardinality({i \in 1..Len(call.daily.df.rows) :
                              call.daily.df.rows[i].t = d}) = 1
            /\ \A i \in 1..Len(call.daily.df.rows) :
                 (call.daily.df.rows[i].t = d /\ ~Contributes(call.local.df, d))
                 => \A c \in call.daily.df.cols :
                      ~call.daily.df.rows[i].v[c].def

\* C6: for every payload whose hourly block lacks any subset of the measurement
\* columns or the time array, or holds non-numeric tokens, the chain
\* parse -> localize -> aggregate completes without raising.
C6_ChainNeverRaises ==
    (call.op = "chain" /\ call.js.hourly # "ragged") =>
        call.parsed.ok /\ call.local.ok /\ call.daily.ok

\* the rows of the payload whose time text parses
ParsedTimes(js) == {i \in 1..Len(js.rows) : js.rows[i].time.s = "iso"}

\* C7: for every payload with a non-empty hourly block (and a time array), the
\* frame hourly_to_frame returns holds exactly the rows whose time parsed, and
\* no row of it has a missing (NaT) index value.
C7_UnparsedRowsDiscarded ==
    (call.op = "chain" /\ call.js.hourly = "present" /\ "time" \in call.js.keys) =>
        /\ call.parsed.ok
        /\ Len(call.parsed.df.rows) = Cardinality(ParsedTimes(call.js))
        /\ \A i \in 1..Len(call.parsed.df.rows) : call.parsed.df.rows[i].t # NaT

\* C8: for every payload with a time array the index of the frame is strictly
\* increasing, no timestamp occurs twice, and of the payload rows that share a
\* timestamp only the last one's row is kept.
C8_IndexStrictlyIncreasing ==
    (call.op = "chain" /\ call.js.hourly = "present" /\ "time" \in call.js.keys) =>
        /\ call.parsed.ok
        /\ \A i, j \in 1..Len(call.parsed.df.rows) :
             (i < j /\ call.parsed.df.rows[i].t # NaT /\ call.parsed.df.rows[j].t # NaT)
                => call.parsed.df.rows[i].t < call.parsed.df.rows[j].t
        /\ \A k \in ParsedTimes(call.js) :
             (\A m \in ParsedTimes(call.js) :
                 call.js.rows[m].time = call.js.rows[k].time => m <= k)
             => \E i \in 1..Len(call.parsed.df.rows) :
                  /\ call.parsed.df.rows[i].t = call.js.rows[k].time.x
                  /\ \A c \in call.parsed.df.cols :
                       call.parsed.df.rows[i].v[c]
                         = (IF call.js.rows[k].val.s = "num"
                            THEN call.js.rows[k].val.x ELSE NaN)

-----------------------------------------------------------------------------
(* Cache Store *)

\* the order of the columns: that of the payload's keys
ColOrder == <<"temperature_2m", "precipitation", "wind_speed_10m">>

RECURSIVE ColSeq(_, _)
ColSeq(cols, i) ==
    IF i > Len(ColOrder) THEN <<>>
    ELSE (IF ColOrder[i] \in cols THEN <<ColOrder[i]>> ELSE <<>>)
         \o ColSeq(cols, i + 1)

\* A cell of the CSV text: a timestamp, a number, or nothing
Blank == [k |-> "blank", x |-> 0]

IndexCell(df, t) ==
    IF df.idx = "time"
    THEN (IF t = NaT THEN Blank ELSE [k |-> "ts", x |-> t])
    ELSE [k |-> "num", x |-> t]

ValueCell(x) == IF x = NaN THEN Blank ELSE [k |-> "num", x |-> x]

\* DataFrame.to_csv: a header of the index label (empty for a RangeIndex) and
\* the column labels, then one line per row
to_csv(df) ==
    [exists |-> TRUE,
     header |-> <<IF df.idx = "time" THEN "time" ELSE "">> \o ColSeq(df.cols, 1),
     lines |-> [i \in 1..Len(df.rows) |->
                  <<IndexCell(df, df.rows[i].t)>>
                  \o [j \in 1..Len(ColSeq(df.cols, 1)) |->
                        ValueCell(df.rows[i].v[ColSeq(df.cols, 1)[j]])]]]

\* pd.read_csv(path, parse_dates=["time"], index_col="time"), then the index
\* localized to UTC when it carries no zone: a file without a time column
\* raises ValueError
read_csv(file) ==
    IF \A j \in 1..Len(file.header) : file.header[j] # "time"
    THEN Raise("ValueError")
    ELSE LET ti == CHOOSE j \in 1..Len(file.header) : file.header[j] = "time"
             others == {j \in 1..Len(file.header) : j # ti}
         IN Ok([idx |-> "time",
                cols |-> {file.header[j] : j \in others},
                rows |-> [i \in 1..Len(file.lines) |->
                   [t |-> IF file.lines[i][ti].k = "ts"
                          THEN file.lines[i][ti].x ELSE NaT,
                    v |-> [c \in {file.header[j] : j \in others} |->
                             LET j == CHOOSE j \in others : file.header[j] = c
                             IN IF file.lines[i][j].k = "num"
                                THEN file.lines[i][j].x ELSE NaN]]]])

\* the files after save_cache(df_utc, lat, lon)
save_cache(files, df_utc, lat, lon) ==
    [files EXCEPT ![cache_path(lat, lon)] = to_csv(df_utc)]

load_cache(files, lat, lon) ==
    IF ~files[cache_path(lat, lon)].exists THEN Ok(EmptyFrame)
    ELSE read_csv(files[cache_path(lat, lon)])

-----------------------------------------------------------------------------
(* The pipeline drivers: one run of the script app_streamlit.py or fetch.py *)

Drivers == {"app_streamlit", "fetch"}

FetchKeySets == {AllKeys, MeasureCols, AllKeys \ {"temperature_2m"}, {"time"}}

\* what a fetch can return in the model
FetchPayloads ==
    {p \in PayloadsUpTo(MaxFetchRows) :
        p.hourly = "present" =>
            /\ p.keys \in FetchKeySets \cup {{}}
            /\ \A i \in 1..Len(p.rows) : p.rows[i].time.x <= MaxFetchHour}

\* fetch_hourly_json either raises (transport or HTTP error) or returns js
Fetches == {[raised |-> TRUE, js |-> [hourly |-> "absent", keys |-> {}, rows |-> <<>>]]}
           \cup [raised : {FALSE}, js : FetchPayloads]

\* the record of a finished run
RunRecord(driver, loc, show_debug, fetch, outcome, exc, errors, saves, df_utc, steps) ==
    [op |-> "run", driver |-> driver, lat |-> loc[1], lon |-> loc[2],
     show_debug |-> show_debug, fetch_raised |-> fetch.raised,
     outcome |-> outcome, exc |-> exc, errors |-> errors, saves |-> saves,
     df_utc |-> df_utc, steps |-> steps]

\* `if df_utc.empty(): st.stop()` of app_streamlit.py calls a bool and raises
\* TypeError; `if df_utc.empty: st.stop()` of fetch.py halts on an empty frame
EmptyCheck(driver, df) ==
    IF driver = "app_streamlit" THEN "TypeError"
    ELSE IF Empty(df) THEN "stop" ELSE "go"

\* the script after the fetch + cache block, with df_utc bound
Display(driver, loc, show_debug, fetch, errors, saves, df_utc) ==
    LET rec(outcome, exc, steps) ==
            RunRecord(driver, loc, show_debug, fetch, outcome, exc, errors,
                      saves, df_utc, steps)
        local == to_local_naive(df_utc)
    IN IF show_debug /\ fetch.raised
         THEN {rec("raised", "NameError", {})}
       ELSE IF ~local.ok
         THEN {rec("raised", local.exc, {})}
       ELSE {IF ~daily.ok
               THEN rec("raised", daily.exc, {"localize", "display"})
             ELSE IF Empty(daily.df)
               THEN rec("displayed", "", {"localize", "display", "aggregate"})
             ELSE rec("displayed", "",
                      {"localize", "display", "aggregate", "anomaly"})
             : daily \in daily_summary(local.df)}

\* the records a run can end with, and the files it leaves
RunOutcomes(driver, files, loc, show_debug, fetch) ==
    LET parsed == IF fetch.raised THEN NotRun ELSE hourly_to_frame(fetch.js)
        loaded == load_cache(files, loc[1], loc[2])
        rec(outcome, exc) ==
            RunRecord(driver, loc, show_debug, fetch, outcome, exc, 1, 0,
                      EmptyFrame, {})
    IN IF parsed.ok
         THEN Display(driver, loc, show_debug, fetch, 0, 1, parsed.df)
       ELSE IF ~loaded.ok
         THEN {rec("raised", loaded.exc)}
       ELSE IF EmptyCheck(driver, loaded.df) = "TypeError"
         THEN {rec("raised", "TypeError")}
       ELSE IF EmptyCheck(driver, loaded.df) = "stop"
         THEN {rec("stopped", "")}
       ELSE Display(driver, loc, show_debug, fetch, 1, 0, loaded.df)

Init ==
    /\ cache = NoFiles
    /\ saved = NoSaves
    /\ call = [op |-> "start"]

Run ==
    \E driver \in Drivers, loc \in DEFAULT_LOCATIONS, show_debug \in BOOLEAN,
       fetch \in Fetches :
      LET parsed == IF fetch.raised THEN NotRun ELSE hourly_to_frame(fetch.js)
      IN /\ \E r \in RunOutcomes(driver, cache, loc, show_debug, fetch) : call' = r
         /\ cache' = IF parsed.ok
                     THEN save_cache(cache, parsed.df, loc[1], loc[2]) ELSE cache
         /\ saved' = IF parsed.ok
                     THEN [saved EXCEPT ![cache_path(loc[1], loc[2])] =
                             [some |-> TRUE, df |-> parsed.df]]
                     ELSE saved

\* the frames the Parser/Normalizer hands to the cache
Frames == {hourly_to_frame(p).df : p \in {q \in FetchPayloads : hourly_to_frame(q).ok}}

SaveCache ==
    \E df \in Frames, c \in Coords :
      /\ cache' = save_cache(cache, df, c[1], c[2])
      /\ saved' = [saved EXCEPT ![cache_path(c[1], c[2])] = [some |-> TRUE, df |-> df]]
      /\ call' = [op |-> "save_cache", lat |-> c[1], lon |-> c[2]]

LoadCache ==
    \E c \in Coords :
      /\ call' = [op |-> "load_cache", lat |-> c[1], lon |-> c[2],
                  res |-> load_cache(cache, c[1], c[2])]
      /\ UNCHANGED <<cache, saved>>

Next == Run \/ SaveCache \/ LoadCache

Spec == Init /\ [][Next]_vars

-----------------------------------------------------------------------------
(* Claims about the pipeline runs and the Cache Store *)

\* the file holds a series that load_cache returns and that is not empty
HoldsSeries(file) == file.exists /\ read_csv(file).ok /\ ~Empty(read_csv(file).df)

\* the file holds a series with every measurement column and no unparsed
\* timestamp: a prior fetch of the full payload
HoldsFullSeries(file) ==
    /\ HoldsSeries(file)
    /\ MeasureCols \subseteq read_csv(file).df.cols
    /\ \A i \in 1..Len(read_csv(file).df.rows) : read_csv(file).df.rows[i].t # NaT

\* C1: in a run (of either driver) where the fetch raises and the cache record
\* of the selected location holds a non-empty series, the run continues with
\* df_utc equal to that series, emits exactly one fetch-error diagnostic,
\* reaches the localize, aggregate and display steps and never calls
\* save_cache, so the record is the same after the run as before it.  Stated
\* for the records that hold a full series, the scenario of the spec, so that
\* a run that fails on a column the record lacks is not counted against it.
C1_FallbackToCachedSeries ==
    [][(/\ call'.op = "run"
        /\ call'.fetch_raised
        /\ HoldsFullSeries(cache[cache_path(call'.lat, call'.lon)]))
       => /\ call'.outcome = "displayed"
          /\ call'.df_utc = read_csv(cache[cache_path(call'.lat, call'.lon)]).df
          /\ call'.errors = 1
          /\ {"localize", "aggregate", "display"} \subseteq call'.steps
          /\ call'.saves = 0
          /\ cache' = cache]_vars

\* C2: in a run where the fetch raises and no cache record exists for the
\* selected location, the run ends in the controlled halt (st.stop after the
\* single fetch-error message): no exception leaves the driver and no
\* localize, aggregate or display step is executed.
C2_NoDataHalt ==
    [][(/\ call'.op = "run"
        /\ call'.fetch_raised
        /\ ~cache[cache_path(call'.lat, call'.lon)].exists)
       => /\ call'.outcome = "stopped"
          /\ call'.errors = 1
          /\ call'.steps = {}]_vars

\* C3: after any sequence of save_cache and load_cache calls, load_cache(lat,
\* lon) returns the series last given to save_cache for (lat, lon) rounded to
\* 4 decimals, and an empty series if none was; saves for another key never
\* change the result.
C3_LoadReturnsLastSaved ==
    call.op = "load_cache" =>
        /\ call.res.ok
        /\ call.res.df = IF saved[cache_path(call.lat, call.lon)].some
                         THEN saved[cache_path(call.lat, call.lon)].df
                         ELSE EmptyFrame

\* C10: over any sequence of runs for a location (fetch succeeding with a full
\* payload, with an absent or empty hourly block, or failing), once the cache
\* record holds a non-empty series it holds a non-empty, loadable series
\* after every later run.
C10_CacheStaysLoadable ==
    [][(/\ call'.op = "run"
        /\ HoldsSeries(cache[cache_path(call'.lat, call'.lon)]))
       => HoldsSeries(cache'[cache_path(call'.lat, call'.lon)])]_vars

====
